---- MODULE Spec2Model ----
(***************************************************************************)
(* The LOCI wire buffer (loci/of_wire_buf.h): one of_wire_buffer_t handle   *)
(* held by a caller, the storage it manages, and the operations the header *)
(* defines on it.                                                          *)
(*                                                                         *)
(* Integers wider than TLC's are kept as their eight base-256 digits,      *)
(* least significant first (Val); storage is a sequence of bytes, C offset *)
(* o being element o + 1.                                                  *)
(***************************************************************************)
EXTENDS Integers, Sequences, FiniteSets, TLC

VARIABLES
    h,              \* the caller's of_wire_buffer_t *: "null", "live" or "freed" (dangling)
    buf,            \* wbuf->buf: "null" or "ptr"
    alloc_bytes,    \* wbuf->alloc_bytes
    current_bytes,  \* wbuf->current_bytes
    free,           \* wbuf->free # NULL
    mem,            \* the bytes of the storage block wbuf->buf was created over
    memOwner,       \* who supplied the block: "none", "heap" (of_wire_buffer_new) or "caller"
    memState,       \* "none", "allocated" or "released"
    bufFrees,       \* times FREE() was applied to the storage block
    freeCalls,      \* times the bound release function was called on the storage block
    wbufFrees,      \* times FREE() was applied to the management structure
    stolen,         \* of_wire_buffer_steal's *buffer: "unset", "null" or "ptr"
    fault,          \* "none", or the undefined behaviour that has happened: "uaf", "oob"
    aborted,        \* LOCI_ASSERT failed (or the process crashed): nothing runs after it
    last,           \* the last call: its name, arguments, outcome and returned value
    nops            \* calls made so far

vars == <<h, buf, alloc_bytes, current_bytes, free, mem, memOwner, memState,
          bufFrees, freeCalls, wbufFrees, stolen, fault, aborted, last, nops>>

\* the fields of the management structure
wbufVars == <<buf, alloc_bytes, current_bytes, free>>
\* the storage block and the allocator's record of it
memVars == <<mem, memOwner, memState, bufFrees, freeCalls, stolen>>

----------------------------------------------------------------------------
(* Bounds of the model *)

\* calls in one run
MaxOps == 3

(* Program constants *)

OF_WIRE_BUFFER_MIN_ALLOC_BYTES == 128

OF_VERSION_1_0 == 1
OF_VERSION_1_1 == 2
OF_VERSION_1_2 == 3
OF_VERSION_1_3 == 4

----------------------------------------------------------------------------
(* Values and bytes *)

Zeros(n) == [i \in 1..n |-> 0]

\* a 64-bit value from its low digits, least significant first
Val(digits) == [i \in 1..8 |-> IF i <= Len(digits) THEN digits[i] ELSE 0]

\* the C conversion (uintN_t)v, N = 8 * w: the low w digits are kept
Cast(w, v) == [i \in 1..8 |-> IF i <= w THEN v[i] ELSE 0]

\* buf_u8_set .. buf_u64_set: the w wire bytes of v, most significant first
BufSet(w, v) == [k \in 1..w |-> v[w + 1 - k]]

\* buf_u8_get .. buf_u64_get: the value of w wire bytes, zero-extended
BufGet(w, bytes) == [i \in 1..8 |-> IF i <= w THEN bytes[w + 1 - i] ELSE 0]

\* a byte read from outside the storage block
OobBytes == {0, 255}

\* OF_WIRE_BUFFER_INDEX(wbuf, offset): whether [offset, offset + n) lies in the block
InBlock(offset, n) == n = 0 \/ (offset >= 0 /\ offset + n <= Len(mem))

\* the block after n bytes bs are stored at offset (the part that falls in it)
WriteBytes(m, offset, bs) ==
    [i \in 1..Len(m) |->
        IF i - 1 >= offset /\ i - 1 < offset + Len(bs) THEN bs[i - offset] ELSE m[i]]

\* n bytes loaded from offset; junk stands for a byte outside the block
ReadBytes(m, offset, n, junk) ==
    [k \in 1..n |->
        IF offset + k >= 1 /\ offset + k <= Len(m) THEN m[offset + k] ELSE junk]

\* the bytes a caller hands to of_wire_buffer_new_bind: byte i holds i + 1
CallerBytes(n) == [i \in 1..n |-> i]

----------------------------------------------------------------------------
(* Calls and their outcomes *)

NoVal == <<>>

\* a call that is no access to the bytes: off and n are 0
Call(op, args, out, val) ==
    [op |-> op, args |-> args, out |-> out, val |-> val, off |-> 0, n |-> 0]

\* a get or set of the n bytes at offset off
Access(op, args, out, val, off, n) ==
    [op |-> op, args |-> args, out |-> out, val |-> val, off |-> off, n |-> n]

CanCall == ~aborted /\ nops < MaxOps

\* a use of the management structure through a dangling handle is undefined
Touch == IF h = "freed" THEN "uaf" ELSE fault

\* LOCI_ASSERT fails: the call ends there and nothing else has changed
AssertFails(call) ==
    /\ aborted' = TRUE
    /\ fault' = Touch
    /\ last' = [call EXCEPT !.out = "assert"]
    /\ nops' = nops + 1
    /\ UNCHANGED <<h, wbufVars, memVars, wbufFrees>>

\* LOCI_ASSERT fails on the arguments alone, before wbuf is looked at
ArgAssertFails(call) ==
    /\ aborted' = TRUE
    /\ last' = [call EXCEPT !.out = "assert"]
    /\ nops' = nops + 1
    /\ UNCHANGED <<h, wbufVars, memVars, wbufFrees, fault>>

\* a NULL pointer is dereferenced: the process ends there
NullDeref(call) ==
    /\ aborted' = TRUE
    /\ last' = [call EXCEPT !.out = "crash"]
    /\ nops' = nops + 1
    /\ UNCHANGED <<h, wbufVars, memVars, wbufFrees, fault>>

\* the read of a released management structure may also fault
Crash(call) ==
    /\ h = "freed"
    /\ aborted' = TRUE
    /\ fault' = "uaf"
    /\ last' = [call EXCEPT !.out = "crash"]
    /\ nops' = nops + 1
    /\ UNCHANGED <<h, wbufVars, memVars, wbufFrees>>

----------------------------------------------------------------------------
Init ==
    /\ h = "null"
    /\ buf = "null"
    /\ alloc_bytes = 0
    /\ current_bytes = 0
    /\ free = FALSE
    /\ mem = <<>>
    /\ memOwner = "none"
    /\ memState = "none"
    /\ bufFrees = 0
    /\ freeCalls = 0
    /\ wbufFrees = 0
    /\ stolen = "unset"
    /\ fault = "none"
    /\ aborted = FALSE
    /\ last = Call("init", <<>>, "ok", NoVal)
    /\ nops = 0

----------------------------------------------------------------------------
(* Construction and destruction *)

\* the sizes asked of of_wire_buffer_new
NewSizes == {-1, 0, 129}
\* the sizes of the caller's memory handed to of_wire_buffer_new_bind
BindSizes == {5, 6, 8, 12, 20}
\* the (buf, bytes, buf_free) given to it: buf_free TRUE for a release function
BindArgs ==
    ({"ptr"} \X BindSizes \X {FALSE}) \cup {<<"ptr", 8, TRUE>>, <<"null", 0, FALSE>>}

\* of_wire_buffer_new without the minimum
NewAllocBytesNoFloor(a_bytes) == IF a_bytes < 0 THEN 0 ELSE a_bytes

\* the size of_wire_buffer_new allocates for a request of a_bytes
NewAllocBytes(a_bytes) ==
    IF a_bytes < OF_WIRE_BUFFER_MIN_ALLOC_BYTES
        THEN OF_WIRE_BUFFER_MIN_ALLOC_BYTES
        ELSE a_bytes

\* of_wire_buffer_new(a_bytes); either MALLOC may return NULL
of_wire_buffer_new(a_bytes, mallocs) ==
    /\ CanCall
    /\ h = "null"
    /\ memState = "none"
    /\ nops' = nops + 1
    /\ IF mallocs < 2
          THEN \* wbuf or wbuf->buf could not be allocated (wbuf is freed again)
               /\ last' = Call("new", <<a_bytes>>, "null", NoVal)
               /\ UNCHANGED <<h, wbufVars, memVars, wbufFrees, fault, aborted>>
          ELSE /\ h' = "live"
               /\ buf' = "ptr"
               /\ free' = FALSE
               /\ mem' = Zeros(NewAllocBytes(a_bytes))
               /\ memOwner' = "heap"
               /\ memState' = "allocated"
               /\ current_bytes' = 0
               /\ alloc_bytes' = NewAllocBytes(a_bytes)
               /\ last' = Call("new", <<a_bytes>>, "ok", NoVal)
               /\ UNCHANGED <<bufFrees, freeCalls, stolen, wbufFrees, fault, aborted>>

\* of_wire_buffer_new_bind(buf, bytes, buf_free), over bytes bytes of caller memory
of_wire_buffer_new_bind(bufp, bytes, buf_free, mallocs) ==
    /\ CanCall
    /\ h = "null"
    /\ memState = "none"
    /\ nops' = nops + 1
    /\ IF mallocs < 1
          THEN /\ last' = Call("new_bind", <<bufp, bytes, buf_free>>, "null", NoVal)
               /\ UNCHANGED <<h, wbufVars, memVars, wbufFrees, fault, aborted>>
          ELSE /\ h' = "live"
               /\ buf' = bufp
               /\ free' = buf_free
               /\ current_bytes' = bytes
               /\ alloc_bytes' = bytes
               /\ mem' = IF bufp = "ptr" THEN CallerBytes(bytes) ELSE <<>>
               /\ memOwner' = IF bufp = "ptr" THEN "caller" ELSE "none"
               /\ memState' = IF bufp = "ptr" THEN "allocated" ELSE "none"
               /\ last' = Call("new_bind", <<bufp, bytes, buf_free>>, "ok", NoVal)
               /\ UNCHANGED <<bufFrees, freeCalls, stolen, wbufFrees, fault, aborted>>

\* the body of of_wire_buffer_free for a non-NULL wbuf: the storage is released by
\* wbuf->free when there is one, by FREE() when not, unless wbuf->buf is NULL
FreeStorage(b) ==
    /\ freeCalls' = IF b # "null" /\ free THEN freeCalls + 1 ELSE freeCalls
    /\ bufFrees' = IF b # "null" /\ ~free THEN bufFrees + 1 ELSE bufFrees
    /\ memState' = IF b # "null" THEN "released" ELSE memState
    /\ wbufFrees' = wbufFrees + 1

\* of_wire_buffer_free(wbuf)
of_wire_buffer_free ==
    /\ CanCall
    /\ \/ /\ h = "null"
          /\ last' = Call("free", <<>>, "ok", NoVal)
          /\ nops' = nops + 1
          /\ UNCHANGED <<h, wbufVars, memVars, wbufFrees, fault, aborted>>
       \/ /\ h # "null"
          /\ FreeStorage(buf)
          /\ h' = "freed"
          /\ fault' = Touch
          /\ last' = Call("free", <<>>, "ok", NoVal)
          /\ nops' = nops + 1
          /\ UNCHANGED <<wbufVars, mem, memOwner, stolen, aborted>>
       \/ Crash(Call("free", <<>>, "ok", NoVal))

\* of_wire_buffer_steal(wbuf, &buffer)
of_wire_buffer_steal ==
    /\ CanCall
    /\ \/ /\ h = "null"
          /\ NullDeref(Call("steal", <<>>, "ok", NoVal))
       \/ /\ h # "null"
          /\ stolen' = buf
          /\ buf' = "null"
          /\ FreeStorage("null")
          /\ h' = "freed"
          /\ fault' = Touch
          /\ last' = Call("steal", <<>>, "ok", buf)
          /\ nops' = nops + 1
          /\ UNCHANGED <<alloc_bytes, current_bytes, free, mem, memOwner, aborted>>
       \/ Crash(Call("steal", <<>>, "ok", NoVal))

----------------------------------------------------------------------------
(* Growth *)

GrowTargets == {-1, 0, 8, 20, 128, 129}

\* of_wire_buffer_grow without its limit on bytes
GrowAcceptedNoLimit(bytes) == h # "null"

\* the two assertions of of_wire_buffer_grow
GrowAccepted(bytes) == h # "null" /\ alloc_bytes >= bytes

\* of_wire_buffer_grow assigning bytes whatever the used extent is
GrowCurrentBytesAssign(bytes) == bytes

\* the used extent of_wire_buffer_grow leaves
GrowCurrentBytes(bytes) == IF bytes > current_bytes THEN bytes ELSE current_bytes

\* of_wire_buffer_grow(wbuf, bytes)
of_wire_buffer_grow(bytes) ==
    /\ CanCall
    /\ \/ /\ ~GrowAccepted(bytes)
          /\ AssertFails(Call("grow", <<bytes>>, "ok", NoVal))
       \/ /\ GrowAccepted(bytes)
          /\ current_bytes' = GrowCurrentBytes(bytes)
          /\ fault' = Touch
          /\ last' = Call("grow", <<bytes>>, "ok", NoVal)
          /\ nops' = nops + 1
          /\ UNCHANGED <<h, buf, alloc_bytes, free, memVars, wbufFrees, aborted>>
       \/ Crash(Call("grow", <<bytes>>, "ok", NoVal))

----------------------------------------------------------------------------
(* Scalar and byte-run accessors *)

Offsets == {-1, 0, 4, 5}

V8 == Val(<<171>>)                                      \* 0xAB
V16 == Val(<<239, 190>>)                                \* 0xBEEF
V32 == Val(<<239, 190, 173, 222>>)                      \* 0xDEADBEEF
V64 == Val(<<239, 205, 171, 137, 103, 69, 35, 1>>)      \* 0x0123456789ABCDEF

Widths == {1, 2, 4, 8}
\* the values given to the uintN_t set of width w
ScalarValues(w) == CASE w = 1 -> {V8} [] w = 2 -> {V16} [] w = 4 -> {V32} [] OTHER -> {V64}
ScalarName(w) == CASE w = 1 -> "u8" [] w = 2 -> "u16" [] w = 4 -> "u32" [] OTHER -> "u64"

\* the access check with > for >=
AccessCheckOffByOne(extent) ==
    /\ h # "null"
    /\ buf # "null"
    /\ extent > 0
    /\ current_bytes > extent

\* OF_WIRE_BUFFER_ACCESS_CHECK(wbuf, offset), offset being the extent required
OF_WIRE_BUFFER_ACCESS_CHECK(extent) ==
    /\ h # "null"
    /\ buf # "null"
    /\ extent > 0
    /\ current_bytes >= extent

\* what an access to [offset, offset + n) of the storage does to fault
AccessFault(offset, n) ==
    IF h = "freed" \/ memState # "allocated" THEN "uaf"
    ELSE IF ~InBlock(offset, n) THEN "oob"
    ELSE fault

\* a store of bytes bs at offset that has passed its checks
Store(call, offset, bs) ==
    /\ mem' = WriteBytes(mem, offset, bs)
    /\ fault' = AccessFault(offset, Len(bs))
    /\ last' = call
    /\ nops' = nops + 1
    /\ UNCHANGED <<h, wbufVars, memOwner, memState, bufFrees, freeCalls, stolen,
                   wbufFrees, aborted>>

\* a load of n bytes from offset that has passed its checks; w is the width of the
\* scalar they are decoded as, 0 for a byte run
Load(call, offset, n, w) ==
    /\ \E junk \in (IF InBlock(offset, n) THEN {0} ELSE OobBytes) :
          LET bytes == ReadBytes(mem, offset, n, junk)
          IN  last' = [call EXCEPT !.val = IF w = 0 THEN bytes ELSE BufGet(w, bytes)]
    /\ fault' = AccessFault(offset, n)
    /\ nops' = nops + 1
    /\ UNCHANGED <<h, wbufVars, memVars, wbufFrees, aborted>>

\* of_wire_buffer_u8_set, _u16_set, _u32_set, _u64_set (wbuf, offset, value), as
\* called by the function named op
ScalarSet(op, args, w, offset, value) ==
    LET call == Access(op, args, "ok", NoVal, offset, w)
    IN  \/ /\ ~OF_WIRE_BUFFER_ACCESS_CHECK(offset + w)
           /\ AssertFails(call)
        \/ /\ OF_WIRE_BUFFER_ACCESS_CHECK(offset + w)
           /\ Store(call, offset, BufSet(w, value))
        \/ Crash(call)

\* of_wire_buffer_u8_get, _u16_get, _u32_get, _u64_get (wbuf, offset, &value)
ScalarGet(op, args, w, offset) ==
    LET call == Access(op, args, "ok", NoVal, offset, w)
    IN  \/ /\ ~OF_WIRE_BUFFER_ACCESS_CHECK(offset + w)
           /\ AssertFails(call)
        \/ /\ OF_WIRE_BUFFER_ACCESS_CHECK(offset + w)
           /\ Load(call, offset, w, w)
        \/ Crash(call)

of_wire_buffer_scalar_set(w, offset, value) ==
    /\ CanCall
    /\ ScalarSet(ScalarName(w) \o "_set", <<offset, value>>, w, offset, value)

of_wire_buffer_scalar_get(w, offset) ==
    /\ CanCall
    /\ ScalarGet(ScalarName(w) \o "_get", <<offset>>, w, offset)

----------------------------------------------------------------------------
(* Version-dependent accessors *)

\* the versions passed: the four wire versions and one that is none of them
Versions == {OF_VERSION_1_0, OF_VERSION_1_1, OF_VERSION_1_2, OF_VERSION_1_3, 5}

\* the offsets of the version-dependent fields
FieldOffsets == {0, 4}

Fields == {"port_no", "fm_cmd", "wc_bmap"}

\* the values given for an of_port_no_t, an of_fm_cmd_t and an of_wc_bmap_t
FieldValues(field) ==
    CASE field = "port_no" -> {V16, V32}
      [] field = "fm_cmd" -> {V8, V16}
      [] OTHER -> {V32, V64}

\* of_wire_buffer_port_no_get reading 32 bits in every version
PortNoGetWidthAlways32(version) ==
    CASE version \in {OF_VERSION_1_0, OF_VERSION_1_1, OF_VERSION_1_2, OF_VERSION_1_3} -> 4
      [] OTHER -> 0

\* the switch of of_wire_buffer_port_no_get: the width of the scalar read, 0 in
\* the default case
PortNoGetWidth(version) ==
    CASE version = OF_VERSION_1_0 -> 2
      [] version \in {OF_VERSION_1_1, OF_VERSION_1_2, OF_VERSION_1_3} -> 4
      [] OTHER -> 0

\* of_wire_buffer_port_no_set writing 32 bits in every version
PortNoSetWidthAlways32(version) ==
    CASE version \in {OF_VERSION_1_0, OF_VERSION_1_1, OF_VERSION_1_2, OF_VERSION_1_3} -> 4
      [] OTHER -> 0

\* the switch of of_wire_buffer_port_no_set: the width of the scalar written
PortNoSetWidth(version) ==
    CASE version = OF_VERSION_1_0 -> 2
      [] version \in {OF_VERSION_1_1, OF_VERSION_1_2, OF_VERSION_1_3} -> 4
      [] OTHER -> 0

\* the switch of of_wire_buffer_fm_cmd_get
FmCmdGetWidth(version) ==
    CASE version = OF_VERSION_1_0 -> 2
      [] version \in {OF_VERSION_1_1, OF_VERSION_1_2, OF_VERSION_1_3} -> 1
      [] OTHER -> 0

\* the switch of of_wire_buffer_fm_cmd_set
FmCmdSetWidth(version) ==
    CASE version = OF_VERSION_1_0 -> 2
      [] version \in {OF_VERSION_1_1, OF_VERSION_1_2, OF_VERSION_1_3} -> 1
      [] OTHER -> 0

\* the switch of of_wire_buffer_wc_bmap_get
WcBmapGetWidth(version) ==
    CASE version \in {OF_VERSION_1_0, OF_VERSION_1_1} -> 4
      [] version \in {OF_VERSION_1_2, OF_VERSION_1_3} -> 8
      [] OTHER -> 0

\* the switch of of_wire_buffer_wc_bmap_set
WcBmapSetWidth(version) ==
    CASE version \in {OF_VERSION_1_0, OF_VERSION_1_1} -> 4
      [] version \in {OF_VERSION_1_2, OF_VERSION_1_3} -> 8
      [] OTHER -> 0

FieldGetWidth(field, version) ==
    CASE field = "port_no" -> PortNoGetWidth(version)
      [] field = "fm_cmd" -> FmCmdGetWidth(version)
      [] OTHER -> WcBmapGetWidth(version)

FieldSetWidth(field, version) ==
    CASE field = "port_no" -> PortNoSetWidth(version)
      [] field = "fm_cmd" -> FmCmdSetWidth(version)
      [] OTHER -> WcBmapSetWidth(version)

\* of_wire_buffer_port_no_set, _fm_cmd_set, _wc_bmap_set (version, wbuf, offset, value)
of_wire_buffer_field_set(field, version, offset, value) ==
    LET w == FieldSetWidth(field, version)
        op == field \o "_set"
    IN  /\ CanCall
        /\ IF w = 0
              THEN ArgAssertFails(Access(op, <<version, offset, value>>, "ok", NoVal, offset, 0))
              ELSE ScalarSet(op, <<version, offset, value>>, w, offset, Cast(w, value))

\* of_wire_buffer_port_no_get, _fm_cmd_get, _wc_bmap_get (version, wbuf, offset, &value)
of_wire_buffer_field_get(field, version, offset) ==
    LET w == FieldGetWidth(field, version)
        op == field \o "_get"
    IN  /\ CanCall
        /\ IF w = 0
              THEN ArgAssertFails(Access(op, <<version, offset>>, "ok", NoVal, offset, 0))
              ELSE ScalarGet(op, <<version, offset>>, w, offset)

----------------------------------------------------------------------------
(* Byte runs *)

\* the byte runs stored, and the lengths loaded
OctetData == {<<>>, <<170, 187>>}
OctetLens == {0, 2}
CurLens == {0, 1, 2}

\* of_wire_buffer_octets_data_set(wbuf, offset, value, cur_len), value holding data
of_wire_buffer_octets_data_set(offset, data, cur_len) ==
    LET call == Access("octets_data_set", <<offset, data, cur_len>>, "ok", NoVal,
                       offset, Len(data))
    IN  /\ CanCall
        /\ IF ~(cur_len = 0 \/ cur_len = Len(data))
              THEN ArgAssertFails(call)
              ELSE \/ /\ ~OF_WIRE_BUFFER_ACCESS_CHECK(offset + Len(data))
                      /\ AssertFails(call)
                   \/ /\ OF_WIRE_BUFFER_ACCESS_CHECK(offset + Len(data))
                      /\ Store(call, offset, data)
                   \/ Crash(call)

\* of_wire_buffer_octets_data_get(wbuf, offset, value), value->bytes being n
of_wire_buffer_octets_data_get(offset, n) ==
    LET call == Access("octets_data_get", <<offset, n>>, "ok", NoVal, offset, n)
    IN  /\ CanCall
        /\ \/ /\ ~OF_WIRE_BUFFER_ACCESS_CHECK(offset + n)
              /\ AssertFails(call)
           \/ /\ OF_WIRE_BUFFER_ACCESS_CHECK(offset + n)
              /\ Load(call, offset, n, 0)
           \/ Crash(call)

----------------------------------------------------------------------------
(* 128-bit values: two 64-bit words, hi at offset and lo at offset + 8 *)

Names128 == {"bitmap_128", "checksum_128"}
Offsets128 == {0, 4}
VLo == Val(<<8, 7, 6, 5, 4, 3, 2, 1>>)                  \* 0x0102030405060708

\* of_wire_buffer_bitmap_128_set, of_wire_buffer_checksum_128_set (buf, offset, v):
\* of_wire_buffer_u64_set(buf, offset, v.hi), then
\* of_wire_buffer_u64_set(buf, offset + 8, v.lo)
of_wire_buffer_128_set(name, offset, hi, lo) ==
    LET call == Access(name \o "_set", <<offset, hi, lo>>, "ok", NoVal, offset, 16)
        first == WriteBytes(mem, offset, BufSet(8, hi))
    IN  /\ CanCall
        /\ \/ /\ ~OF_WIRE_BUFFER_ACCESS_CHECK(offset + 8)
              /\ AssertFails(call)
           \/ /\ OF_WIRE_BUFFER_ACCESS_CHECK(offset + 8)
              /\ ~OF_WIRE_BUFFER_ACCESS_CHECK(offset + 8 + 8)
              \* the first word is stored, then the second call's assertion fails
              /\ mem' = first
              /\ aborted' = TRUE
              /\ fault' = AccessFault(offset, 8)
              /\ last' = [call EXCEPT !.out = "assert"]
              /\ nops' = nops + 1
              /\ UNCHANGED <<h, wbufVars, memOwner, memState, bufFrees, freeCalls,
                             stolen, wbufFrees>>
           \/ /\ OF_WIRE_BUFFER_ACCESS_CHECK(offset + 8)
              /\ OF_WIRE_BUFFER_ACCESS_CHECK(offset + 8 + 8)
              /\ mem' = WriteBytes(first, offset + 8, BufSet(8, lo))
              /\ fault' = AccessFault(offset, 16)
              /\ last' = call
              /\ nops' = nops + 1
              /\ UNCHANGED <<h, wbufVars, memOwner, memState, bufFrees, freeCalls,
                             stolen, wbufFrees, aborted>>
           \/ Crash(call)

\* of_wire_buffer_bitmap_128_get, of_wire_buffer_checksum_128_get (buf, offset, v)
of_wire_buffer_128_get(name, offset) ==
    LET call == Access(name \o "_get", <<offset>>, "ok", NoVal, offset, 16)
    IN  /\ CanCall
        /\ \/ /\ ~(/\ OF_WIRE_BUFFER_ACCESS_CHECK(offset + 8)
                   /\ OF_WIRE_BUFFER_ACCESS_CHECK(offset + 8 + 8))
              /\ AssertFails(call)
           \/ /\ OF_WIRE_BUFFER_ACCESS_CHECK(offset + 8)
              /\ OF_WIRE_BUFFER_ACCESS_CHECK(offset + 8 + 8)
              /\ \E junk \in (IF InBlock(offset, 16) THEN {0} ELSE OobBytes) :
                    last' = [call EXCEPT !.val =
                                <<BufGet(8, ReadBytes(mem, offset, 8, junk)),
                                  BufGet(8, ReadBytes(mem, offset + 8, 8, junk))>>]
              /\ fault' = AccessFault(offset, 16)
              /\ nops' = nops + 1
              /\ UNCHANGED <<h, wbufVars, memVars, wbufFrees, aborted>>
           \/ Crash(call)

----------------------------------------------------------------------------
(* Relocation and splice *)

\* MEMMOVE(&m[dst], &m[src], n): the copy is as if through a temporary, so it is
\* right when the ranges overlap; junk stands for a byte outside the block
MemMove(m, dst, src, n, junk) ==
    [i \in 1..Len(m) |->
        IF i - 1 >= dst /\ i - 1 < dst + n
            THEN LET s == src + (i - 1 - dst)
                 IN  IF s >= 0 /\ s < Len(m) THEN m[s + 1] ELSE junk
            ELSE m[i]]

\* the (start_offset, new_offset) pairs given to of_wire_buffer_move_end
MovePairs == {<<14, 12>>, <<12, 14>>, <<4, 4>>, <<2, 0>>, <<0, 2>>}

\* the bytes of_wire_buffer_move_end moves
MoveEndBytes(start_offset, new_offset) ==
    IF new_offset > start_offset
        THEN new_offset - start_offset
        ELSE start_offset - new_offset

\* of_wire_buffer_move_end taking the bytes off the length in both branches
MoveEndNewLengthShrinks(start_offset, new_offset) ==
    alloc_bytes - MoveEndBytes(start_offset, new_offset)

\* the length of_wire_buffer_move_end computes
MoveEndNewLength(start_offset, new_offset) ==
    IF new_offset > start_offset
        THEN alloc_bytes + MoveEndBytes(start_offset, new_offset)
        ELSE alloc_bytes - MoveEndBytes(start_offset, new_offset)

\* of_wire_buffer_move_end(wbuf, start_offset, new_offset)
of_wire_buffer_move_end(start_offset, new_offset) ==
    LET call == Call("move_end", <<start_offset, new_offset>>, "ok", NoVal)
        bytes == MoveEndBytes(start_offset, new_offset)
        new_length == MoveEndNewLength(start_offset, new_offset)
        inside == InBlock(start_offset, bytes) /\ InBlock(new_offset, bytes)
    IN  /\ CanCall
        /\ \/ /\ h = "null"
              /\ NullDeref(call)
           \/ /\ h # "null"
              /\ new_offset > start_offset
              /\ ~OF_WIRE_BUFFER_ACCESS_CHECK(new_length)
              /\ AssertFails(call)
           \/ /\ h # "null"
              /\ new_offset > start_offset => OF_WIRE_BUFFER_ACCESS_CHECK(new_length)
              /\ buf = "null" /\ bytes > 0
              /\ NullDeref(call)
           \/ /\ h # "null"
              /\ new_offset > start_offset => OF_WIRE_BUFFER_ACCESS_CHECK(new_length)
              /\ ~(buf = "null" /\ bytes > 0)
              /\ \E junk \in (IF inside THEN {0} ELSE OobBytes) :
                    mem' = MemMove(mem, new_offset, start_offset, bytes, junk)
              /\ alloc_bytes' = new_length
              /\ fault' = IF bytes = 0 THEN Touch
                          ELSE IF h = "freed" \/ memState # "allocated" THEN "uaf"
                          ELSE IF ~inside THEN "oob"
                          ELSE fault
              /\ last' = call
              /\ nops' = nops + 1
              /\ UNCHANGED <<h, buf, current_bytes, free, memOwner, memState,
                             bufFrees, freeCalls, stolen, wbufFrees, aborted>>
           \/ Crash(call)

\* the (offset, old_len, data) given to of_wire_buffer_replace_data
SpliceArgs ==
    { <<10, 4, <<170, 187>>>>, <<10, 2, <<170, 187>>>>,
      <<10, 2, <<170, 187, 204, 221>>>>, <<0, 0, <<>>>>, <<18, 4, <<170, 187>>>> }

\* the splice without the move of the bytes that follow the replaced region
SpliceBytesNoMove(m, extent, offset, old_len, data) == WriteBytes(m, offset, data)

\* the bytes after the splice: [0, offset) kept, data at offset, and the bytes that
\* followed the replaced region, up to the used extent, right after data
SpliceBytes(m, extent, offset, old_len, data) ==
    WriteBytes(MemMove(m, offset + Len(data), offset + old_len,
                       extent - (offset + old_len), 0),
               offset, data)

\* of_wire_buffer_replace_data(wbuf, offset, old_len, data, new_len), new_len being
\* the length of data; a splice that would pass alloc_bytes fails an assertion,
\* as of_wire_buffer_grow does
of_wire_buffer_replace_data(offset, old_len, data) ==
    LET call == Call("replace_data", <<offset, old_len, data>>, "ok", NoVal)
        new_extent == current_bytes - old_len + Len(data)
        accepted == /\ h # "null"
                    /\ buf # "null"
                    /\ offset >= 0
                    /\ old_len >= 0
                    /\ offset + old_len <= current_bytes
                    /\ new_extent <= alloc_bytes
    IN  /\ CanCall
        /\ \/ /\ ~accepted
              /\ AssertFails(call)
           \/ /\ accepted
              /\ mem' = SpliceBytes(mem, current_bytes, offset, old_len, data)
              /\ current_bytes' = new_extent
              /\ fault' = IF h = "freed" \/ memState # "allocated" THEN "uaf" ELSE fault
              /\ last' = call
              /\ nops' = nops + 1
              /\ UNCHANGED <<h, buf, alloc_bytes, free, memOwner, memState,
                             bufFrees, freeCalls, stolen, wbufFrees, aborted>>
           \/ Crash(call)

----------------------------------------------------------------------------
Next ==
    \/ \E a \in NewSizes, k \in 0..2 : of_wire_buffer_new(a, k)
    \/ \E a \in BindArgs, k \in 0..1 : of_wire_buffer_new_bind(a[1], a[2], a[3], k)
    \/ of_wire_buffer_free
    \/ of_wire_buffer_steal
    \/ \E b \in GrowTargets : of_wire_buffer_grow(b)
    \/ \E w \in Widths, o \in Offsets : \E v \in ScalarValues(w) :
          of_wire_buffer_scalar_set(w, o, v)
    \/ \E w \in Widths, o \in Offsets : of_wire_buffer_scalar_get(w, o)
    \/ \E f \in Fields, ver \in Versions, o \in FieldOffsets : \E v \in FieldValues(f) :
          of_wire_buffer_field_set(f, ver, o, v)
    \/ \E f \in Fields, ver \in Versions, o \in FieldOffsets :
          of_wire_buffer_field_get(f, ver, o)
    \/ \E o \in Offsets, d \in OctetData, c \in CurLens :
          of_wire_buffer_octets_data_set(o, d, c)
    \/ \E o \in Offsets, n \in OctetLens : of_wire_buffer_octets_data_get(o, n)
    \/ \E nm \in Names128, o \in Offsets128 : of_wire_buffer_128_set(nm, o, V64, VLo)
    \/ \E nm \in Names128, o \in Offsets128 : of_wire_buffer_128_get(nm, o)
    \/ \E p \in MovePairs : of_wire_buffer_move_end(p[1], p[2])
    \/ \E a \in SpliceArgs : of_wire_buffer_replace_data(a[1], a[2], a[3])

Spec == Init /\ [][Next]_vars

----------------------------------------------------------------------------
(* Properties *)

\* the step is a call
Step == nops' = nops + 1

ScalarSetOps == {"u8_set", "u16_set", "u32_set", "u64_set"}
ScalarGetOps == {"u8_get", "u16_get", "u32_get", "u64_get"}
FieldSetOps == {"port_no_set", "fm_cmd_set", "wc_bmap_set"}
FieldGetOps == {"port_no_get", "fm_cmd_get", "wc_bmap_get"}
Set128Ops == {"bitmap_128_set", "checksum_128_set"}

\* C1: in every state reached through calls that passed their assertions, with no
\* undefined behaviour, the live buffer has 0 <= current_bytes <= alloc_bytes.
C1_UsedWithinAllocated ==
    (h = "live" /\ ~aborted /\ fault = "none")
        => (0 <= current_bytes /\ current_bytes <= alloc_bytes)

\* the call c went as far as OF_WIRE_BUFFER_ACCESS_CHECK for the c.n bytes at c.off:
\* a scalar get or set, a version-dependent one in a supported version, a byte run
\* whose cur_len is accepted
ReachedAccessCheck(c) ==
    \/ c.op \in ScalarSetOps \cup ScalarGetOps \cup {"octets_data_get"}
    \/ c.op \in FieldSetOps \cup FieldGetOps /\ c.n > 0
    \/ c.op = "octets_data_set" /\ c.args[3] \in {0, c.n}

\* C2 as stated: an access with offset + w > current_bytes fails the access
\* check, and one with offset + w = current_bytes and offset >= 0 passes it.
C2_AccessCheckAsStated ==
    (nops > 0 /\ ReachedAccessCheck(last))
        => /\ (h # "freed" /\ last.off + last.n > current_bytes) => last.out = "assert"
           /\ (h = "live" /\ buf = "ptr" /\ last.off >= 0
                 /\ last.off + last.n = current_bytes) => last.out = "ok"

\* C2 amended: an access with offset + w > current_bytes fails the access check;
\* one with offset + w = current_bytes and offset >= 0 passes it when the storage
\* is not NULL and offset + w > 0 (the zero-length byte run at offset 0 of an
\* empty buffer fails).
C2_AccessCheck ==
    (nops > 0 /\ ReachedAccessCheck(last))
        => /\ (h # "freed" /\ last.off + last.n > current_bytes) => last.out = "assert"
           /\ (h = "live" /\ buf = "ptr" /\ last.off >= 0 /\ last.off + last.n > 0
                 /\ last.off + last.n = current_bytes) => last.out = "ok"
           /\ (h = "live" /\ last.off + last.n = 0) => last.out = "assert"

\* a 64-bit read that ends exactly at the used extent has passed
C2_Witness ==
    /\ last.op = "u64_get"
    /\ last.off + 8 = current_bytes
    /\ last.out = "ok"
    /\ h = "live"

\* the getter that reads what the setter named op wrote
GetterOf(op) ==
    CASE op = "u8_set" -> "u8_get" [] op = "u16_set" -> "u16_get"
      [] op = "u32_set" -> "u32_get" [] op = "u64_set" -> "u64_get"
      [] op = "port_no_set" -> "port_no_get" [] op = "fm_cmd_set" -> "fm_cmd_get"
      [] op = "wc_bmap_set" -> "wc_bmap_get" [] OTHER -> "none"

\* the value a setter was given: its last argument
ValueOf(c) == c.args[Len(c.args)]

\* a get that follows a set of the same kind (and version) at the same offset of
\* a live buffer, both within the used extent
SetThenGet ==
    /\ Step
    /\ h = "live"
    /\ fault' = "none"
    /\ last.op \in ScalarSetOps \cup FieldSetOps
    /\ last.out = "ok"
    /\ last.off >= 0
    /\ last'.op = GetterOf(last.op)
    /\ last'.out = "ok"
    /\ last'.off = last.off
    /\ last.op \in FieldSetOps => last'.args[1] = last.args[1]

\* the width on the wire of the field the call c is about, in c's version
WireWidth(c) ==
    LET version == c.args[1]
    IN  CASE c.op \in {"port_no_set", "port_no_get"} -> IF version = 1 THEN 2 ELSE 4
          [] c.op \in {"fm_cmd_set", "fm_cmd_get"} -> IF version = 1 THEN 2 ELSE 1
          [] c.op \in {"wc_bmap_set", "wc_bmap_get"} -> IF version \in {1, 2} THEN 4 ELSE 8
          [] c.op \in {"u8_set", "u8_get"} -> 1
          [] c.op \in {"u16_set", "u16_get"} -> 2
          [] c.op \in {"u32_set", "u32_get"} -> 4
          [] OTHER -> 8

\* C3 as stated: set(v) then get() at the same offset (and version) returns v, for
\* every v of the caller-facing type.
C3_RoundTripAsStated == [][SetThenGet => last'.val = ValueOf(last)]_vars

\* C3 amended: set(v) then get() returns v reduced to the width the version puts
\* on the wire (v itself when v fits that width); a scalar of width w returns v.
C3_RoundTrip ==
    [][SetThenGet =>
          /\ last'.val = Cast(WireWidth(last), ValueOf(last))
          /\ last.op \in ScalarSetOps => last'.val = ValueOf(last)
          /\ Cast(WireWidth(last), ValueOf(last)) = ValueOf(last)
                => last'.val = ValueOf(last)]_vars

\* 0xDEADBEEF written at offset 4 as a version 1.2 port number has been read back
C3_Witness ==
    /\ last.op = "port_no_get"
    /\ last.args = <<OF_VERSION_1_2, 4>>
    /\ last.out = "ok"
    /\ last.val = V32
    /\ h = "live"

C5_GrowMonotonic ==
    [][(Step /\ last'.op = "grow") =>
          /\ current_bytes' >= current_bytes
          /\ (last'.out = "ok" /\ last'.args[1] > current_bytes)
                => current_bytes' = last'.args[1]
          /\ (last.op = "grow" /\ last.out = "ok" /\ last'.args[1] < last.args[1])
                => current_bytes' = current_bytes]_vars

\* grow(20) then grow(8) on a new buffer: the used extent is still 20
C5_Witness ==
    /\ last.op = "grow"
    /\ last.args = <<8>>
    /\ last.out = "ok"
    /\ memOwner = "heap"
    /\ current_bytes = 20

\* C6: of_wire_buffer_grow with bytes > alloc_bytes, or with a NULL buffer, fails
\* its assertion and leaves current_bytes, alloc_bytes and the storage as they
\* were; with bytes = alloc_bytes it succeeds.
C6_GrowPastAllocFails ==
    [][(Step /\ last'.op = "grow" /\ h # "freed") =>
          /\ (h = "null" \/ last'.args[1] > alloc_bytes)
                => /\ last'.out = "assert"
                   /\ UNCHANGED <<current_bytes, alloc_bytes, mem, memState, buf>>
          /\ (h = "live" /\ last'.args[1] = alloc_bytes)
                => /\ last'.out = "ok"
                   /\ current_bytes' >= alloc_bytes
                   /\ UNCHANGED <<alloc_bytes, mem, memState, buf>>]_vars

\* grow to one byte more than is allocated has failed its assertion
C6_Witness ==
    /\ last.op = "grow"
    /\ last.out = "assert"
    /\ h = "live"
    /\ last.args[1] = alloc_bytes + 1

\* C7: of_wire_buffer_free of a buffer bound to caller memory with no release
\* function neither frees nor changes that memory.
C7_CallerMemoryKept ==
    [][(Step /\ last'.op = "free" /\ h = "live" /\ memOwner = "caller" /\ ~free) =>
          /\ mem' = mem
          /\ memState' = "allocated"
          /\ bufFrees' = bufFrees
          /\ freeCalls' = freeCalls]_vars

\* C8: of_wire_buffer_steal hands over the storage unreleased and unchanged, and
\* every later call on the handle is rejected: it changes nothing of the
\* management structure or the storage.
C8_StealInvalidates ==
    [][/\ (Step /\ last'.op = "steal" /\ h = "live")
            => /\ mem' = mem
               /\ stolen' = buf
               /\ UNCHANGED <<memState, bufFrees, freeCalls>>
       /\ (Step /\ stolen # "unset")
            => /\ last'.out \in {"assert", "crash"}
               /\ UNCHANGED <<wbufVars, memVars, wbufFrees>>]_vars

\* C9: over any number of of_wire_buffer_free calls on a buffer the storage is
\* released once and the management structure is released once.
C9_FreeIdempotent ==
    /\ bufFrees + freeCalls <= 1
    /\ wbufFrees <= 1
    /\ (last.op = "free" /\ h = "freed" /\ stolen = "unset" /\ memOwner # "none")
          => (bufFrees + freeCalls = 1 /\ wbufFrees = 1)

\* the calls that write to the buffer
WriteOps ==
    ScalarSetOps \cup FieldSetOps \cup Set128Ops
        \cup {"octets_data_set", "grow", "move_end", "replace_data"}

\* C10: a write call that fails a contract check has changed no byte of the
\* buffer and neither current_bytes nor alloc_bytes.
C10_NoPartialWrite ==
    [][(Step /\ last'.op \in WriteOps /\ last'.out = "assert") =>
          UNCHANGED <<mem, current_bytes, alloc_bytes>>]_vars

SupportedVersions == {OF_VERSION_1_0, OF_VERSION_1_1, OF_VERSION_1_2, OF_VERSION_1_3}

\* C11: a version-dependent set writes the version's wire width at offset, most
\* significant byte first, and changes no byte outside [offset, offset + width)
\* (port_no 2 bytes in 1.0 and 4 in 1.1-1.3, fm_cmd 2 and 1, wc_bmap 4 in 1.0-1.1
\* and 8 in 1.2-1.3); the get reads the same width and zero-extends it; any other
\* version fails the assertion with nothing changed.
C11_FieldWidths ==
    [][(Step /\ h = "live" /\ last'.op \in FieldSetOps \cup FieldGetOps) =>
          LET version == last'.args[1]
              offset == last'.args[2]
              w == WireWidth(last')
          IN  /\ version \notin SupportedVersions
                    => /\ last'.out = "assert"
                       /\ UNCHANGED <<mem, current_bytes, alloc_bytes>>
              /\ (version \in SupportedVersions /\ last'.out = "ok")
                    => /\ last'.n = w
                       /\ offset >= 0 /\ offset + w <= Len(mem)
                       /\ UNCHANGED <<current_bytes, alloc_bytes>>
              /\ (version \in SupportedVersions /\ last'.out = "ok"
                    /\ last'.op \in FieldSetOps)
                    => /\ \A i \in 1..Len(mem) :
                             (i - 1 < offset \/ i - 1 >= offset + w) => mem'[i] = mem[i]
                       /\ \A k \in 1..w : mem'[offset + k] = ValueOf(last')[w + 1 - k]
              /\ (version \in SupportedVersions /\ last'.out = "ok"
                    /\ last'.op \in FieldGetOps)
                    => /\ mem' = mem
                       /\ \A i \in 1..8 :
                             last'.val[i] = IF i <= w THEN mem[offset + w + 1 - i] ELSE 0]_vars

\* 0xDEADBEEF set as a version 1.0 port number at offset 4 of the caller's bytes:
\* BE EF at [4, 6), the bytes on both sides as they were
C11_Witness ==
    /\ last.op = "port_no_set"
    /\ last.args = <<OF_VERSION_1_0, 4, V32>>
    /\ last.out = "ok"
    /\ memOwner = "caller"
    /\ Len(mem) >= 8
    /\ mem[4] = 4 /\ mem[5] = 190 /\ mem[6] = 239 /\ mem[7] = 7 /\ mem[8] = 8

\* C12: of_wire_buffer_new(a_bytes) returns NULL with nothing left allocated, or
\* a buffer with alloc_bytes = max(a_bytes, 128), current_bytes = 0, no release
\* function, and alloc_bytes bytes of storage that are all zero.
C12_New ==
    (last.op = "new") =>
        LET a_bytes == last.args[1]
        IN  \/ /\ last.out = "null"
               /\ h = "null"
               /\ memState = "none"
               /\ mem = <<>>
            \/ /\ last.out = "ok"
               /\ h = "live"
               /\ buf = "ptr"
               /\ alloc_bytes = (IF a_bytes > 128 THEN a_bytes ELSE 128)
               /\ current_bytes = 0
               /\ ~free
               /\ memState = "allocated"
               /\ Len(mem) = alloc_bytes
               /\ \A i \in 1..Len(mem) : mem[i] = 0

\* a request for -1 bytes has returned a buffer of 128 zero bytes
C12_Witness ==
    /\ last.op = "new"
    /\ last.args = <<-1>>
    /\ last.out = "ok"
    /\ alloc_bytes = 128
    /\ Len(mem) = 128

GetOps == ScalarGetOps \cup FieldGetOps \cup {"octets_data_get"}

\* C13: of_wire_buffer_move_end(wbuf, start_offset, new_offset) with
\* 0 <= new_offset <= start_offset <= E, E the used extent, leaves the original
\* bytes [start_offset, E) at [new_offset, new_offset + (E - start_offset)) and
\* the bytes [0, new_offset) as they were; with new_offset = start_offset the
\* bytes, current_bytes and alloc_bytes are all unchanged.
C13_MoveEnd ==
    [][(/\ Step
        /\ last'.op = "move_end"
        /\ h = "live" /\ buf = "ptr" /\ memState = "allocated"
        /\ 0 <= last'.args[2]
        /\ last'.args[2] <= last'.args[1]
        /\ last'.args[1] <= current_bytes
        /\ current_bytes <= Len(mem)) =>
          LET start_offset == last'.args[1]
              new_offset == last'.args[2]
              E == current_bytes
          IN  /\ last'.out = "ok"
              /\ \A k \in 1..(E - start_offset) :
                     mem'[new_offset + k] = mem[start_offset + k]
              /\ \A i \in 1..new_offset : mem'[i] = mem[i]
              /\ new_offset = start_offset
                    => UNCHANGED <<mem, current_bytes, alloc_bytes>>]_vars

\* C14: a scalar or byte-run get or set that passes OF_WIRE_BUFFER_ACCESS_CHECK
\* reads or writes only indices within [0, current_bytes), whatever the offset
\* and the width, and a get changes no byte, current_bytes or alloc_bytes.
C14_AccessWithinUsed ==
    [][(Step /\ h = "live" /\ ReachedAccessCheck(last') /\ last'.out = "ok") =>
          /\ last'.n > 0 => (0 <= last'.off /\ last'.off + last'.n <= current_bytes)
          /\ last'.op \in GetOps => UNCHANGED <<mem, current_bytes, alloc_bytes>>]_vars

\* C15: where current_bytes <= alloc_bytes, of_wire_buffer_move_end with
\* new_offset > start_offset fails its access check before any byte is moved:
\* the bytes, current_bytes and alloc_bytes are unchanged.
C15_MoveEndGrowFails ==
    [][(/\ Step
        /\ last'.op = "move_end"
        /\ h = "live"
        /\ current_bytes <= alloc_bytes
        /\ last'.args[2] > last'.args[1]) =>
          /\ last'.out = "assert"
          /\ UNCHANGED <<mem, current_bytes, alloc_bytes>>]_vars

\* move_end(12, 14) on a bound buffer of 20 bytes has failed the assertion
C15_Witness ==
    /\ last.op = "move_end"
    /\ last.args = <<12, 14>>
    /\ last.out = "assert"
    /\ h = "live"
    /\ current_bytes = 20
    /\ alloc_bytes = 20
    /\ mem = CallerBytes(20)

====
